---- MODULE Spec2Model ----
(***************************************************************************)
(* Model of infra/__main__.py: a straight-line Pulumi program that         *)
(* declares a VPC, an internet gateway, a subnet, a route table, a route   *)
(* table association, a security group, a key pair and an instance, and    *)
(* exports two outputs.                                                    *)
(*                                                                         *)
(* Text is modelled as a sequence of tokens; concatenation of text is      *)
(* concatenation of the token sequences.  A path is a token sequence in    *)
(* which every separator "/" is a token of its own.  The content of the    *)
(* key file is a sequence over Chars, with "CR" and "LF" standing for the  *)
(* carriage return and the line feed.                                      *)
(***************************************************************************)
EXTENDS Integers, Sequences, FiniteSets, TLC

\* ---- bounds of the environment the program runs in ----
MaxLen == 3
MaxRuns == 2

Chars == {"k", "CR", "LF"}
Contents == UNION {[1..n -> Chars] : n \in 0..MaxLen}
Dirs == {<<"/">>, <<"/", "home">>, <<"/", "home", "/", "infra">>}
AZLists == {<<>>, <<"us-east-1a">>, <<"us-east-1a", "us-east-1b">>,
            <<"us-east-1b", "us-east-1a">>}
IPs == {<<"203.0.113.7">>, <<"198.51.100.20">>}

VARIABLES
    cwd,          \* environment: working directory of the process
    files,        \* environment: path -> content of the files that exist
    zones,        \* environment: names returned by get_availability_zones()
    public_ip,    \* environment: address the provider gives the instance
    pc,           \* index into Program of the statement to execute next
    status,       \* "running", "done" or "error"
    error,        \* the exception that ended the run, "none" otherwise
    resources,    \* logical name -> declared resource
    log,          \* logical names in the order of declaration
    outputs,      \* exported name -> value
    current_dir,  \* the script's variable current_dir
    az,           \* value of get_availability_zones().names[0]
    key_text,     \* value of open(...).read()
    read_path,    \* path handed to open()
    run,          \* number of the current execution of the program
    stack         \* declaration recorded by the previous completed run

vars == <<cwd, files, zones, public_ip, pc, status, error, resources, log,
          outputs, current_dir, az, key_text, read_path, run, stack>>

env == <<cwd, files, zones, public_ip>>

\* ---- pure helpers ----

NoFiles == [p \in {} |-> <<>>]
NoResources == [n \in {} |-> [name |-> n]]
NoOutputs == [n \in {} |-> <<>>]

KeyFileName == <<"id_rsa_pulumi.pub">>

\* os.path.join(a, b) for a relative b
PathJoin(a, b) ==
    IF Len(a) = 0 \/ a[Len(a)] = "/" THEN a \o b ELSE a \o <<"/">> \o b

\* text-mode read(): universal newlines turn CR LF and a lone CR into LF
RECURSIVE TextRead(_)
TextRead(bytes) ==
    IF Len(bytes) = 0 THEN <<>>
    ELSE IF bytes[1] = "CR"
         THEN IF Len(bytes) >= 2 /\ bytes[2] = "LF"
              THEN <<"LF">> \o TextRead(SubSeq(bytes, 3, Len(bytes)))
              ELSE <<"LF">> \o TextRead(Tail(bytes))
         ELSE <<bytes[1]>> \o TextRead(Tail(bytes))

\* pulumi.Output.concat(*args): the arguments joined with nothing between
RECURSIVE Concat(_)
Concat(args) ==
    IF Len(args) = 0 THEN <<>> ELSE Head(args) \o Concat(Tail(args))

\* someResource.attr handed to another resource
Ref(r, attr) == [res |-> r.name, attr |-> attr]

Cidr(a, b, c, d, len) == [a |-> a, b |-> b, c |-> c, d |-> d, len |-> len]

AnyAddress == Cidr(0, 0, 0, 0, 0)

\* ---- the declarations ----

vpc ==
    [type |-> "Vpc", name |-> "my-vpc",
     cidr_block |-> Cidr(10, 0, 0, 0, 16),
     enable_dns_hostnames |-> TRUE,
     enable_dns_support |-> TRUE,
     tags |-> "my-vpc"]

igw ==
    [type |-> "InternetGateway", name |-> "my-igw",
     vpc_id |-> Ref(vpc, "id"),
     tags |-> "my-igw"]

FirstAZRotating(names) == names[((run - 1) % Len(names)) + 1]

FirstAZ(names) == names[1]

public_subnet_outside(zone) ==
    [type |-> "Subnet", name |-> "public-subnet",
     vpc_id |-> Ref(vpc, "id"),
     cidr_block |-> Cidr(10, 1, 1, 0, 24),
     map_public_ip_on_launch |-> TRUE,
     availability_zone |-> zone,
     tags |-> "public-subnet"]

public_subnet(zone) ==
    [type |-> "Subnet", name |-> "public-subnet",
     vpc_id |-> Ref(vpc, "id"),
     cidr_block |-> Cidr(10, 0, 1, 0, 24),
     map_public_ip_on_launch |-> TRUE,
     availability_zone |-> zone,
     tags |-> "public-subnet"]

route_table_no_gateway ==
    [type |-> "RouteTable", name |-> "public-route-table",
     vpc_id |-> Ref(vpc, "id"),
     routes |-> <<[cidr_block |-> AnyAddress,
                   gateway_id |-> Ref(vpc, "id")]>>,
     tags |-> "public-route-table"]

route_table ==
    [type |-> "RouteTable", name |-> "public-route-table",
     vpc_id |-> Ref(vpc, "id"),
     routes |-> <<[cidr_block |-> AnyAddress,
                   gateway_id |-> Ref(igw, "id")]>>,
     tags |-> "public-route-table"]

route_table_association ==
    [type |-> "RouteTableAssociation",
     name |-> "public-route-table-association",
     subnet_id |-> Ref(public_subnet(""), "id"),
     route_table_id |-> Ref(route_table, "id")]

ssh_security_group_all_ports ==
    [type |-> "SecurityGroup", name |-> "ssh-security-group",
     description |-> "Allow SSH access",
     vpc_id |-> Ref(vpc, "id"),
     ingress |-> <<[description |-> "SSH from anywhere",
                    from_port |-> 0, to_port |-> 65535, protocol |-> "tcp",
                    cidr_blocks |-> <<AnyAddress>>]>>,
     egress |-> <<[from_port |-> 0, to_port |-> 0, protocol |-> "-1",
                   cidr_blocks |-> <<AnyAddress>>]>>,
     tags |-> "ssh-security-group"]

ssh_security_group ==
    [type |-> "SecurityGroup", name |-> "ssh-security-group",
     description |-> "Allow SSH access",
     vpc_id |-> Ref(vpc, "id"),
     ingress |-> <<[description |-> "SSH from anywhere",
                    from_port |-> 22, to_port |-> 22, protocol |-> "tcp",
                    cidr_blocks |-> <<AnyAddress>>]>>,
     egress |-> <<[from_port |-> 0, to_port |-> 0, protocol |-> "-1",
                   cidr_blocks |-> <<AnyAddress>>]>>,
     tags |-> "ssh-security-group"]

RECURSIVE Strip(_)
Strip(text) ==
    IF Len(text) > 0 /\ text[Len(text)] = "LF"
    THEN Strip(SubSeq(text, 1, Len(text) - 1))
    ELSE text

key_pair_stripped(text) ==
    [type |-> "KeyPair", name |-> "my-key-pair",
     key_name |-> "my-key-pair",
     public_key |-> Strip(text)]

key_pair(text) ==
    [type |-> "KeyPair", name |-> "my-key-pair",
     key_name |-> "my-key-pair",
     public_key |-> text]

instance ==
    [type |-> "Instance", name |-> "my-instance",
     instance_type |-> "t2.micro",
     ami |-> "ami-060e277c0d4cce553",
     subnet_id |-> Ref(public_subnet(""), "id"),
     vpc_security_group_ids |-> <<Ref(ssh_security_group, "id")>>,
     key_name |-> Ref(key_pair(<<>>), "key_name"),
     tags |-> "my-instance"]

ssh_command_pub(dir, ip) ==
    <<<<"ssh -i ">>, dir, <<"/id_rsa_pulumi.pub ubuntu@">>, ip>>

\* the arguments of the Output.concat call of the second export
ssh_command(dir, ip) ==
    <<<<"ssh -i ">>, dir, <<"/id_rsa_pulumi ubuntu@">>, ip>>

\* ---- the statements of the script, in source order ----

ProgramVpcTwice ==
    <<"vpc", "igw", "zones", "subnet", "route_table", "association", "vpc",
      "security_group", "getcwd", "read", "key_pair", "instance",
      "export_ip", "export_ssh">>

ProgramIgwFirst ==
    <<"igw", "vpc", "zones", "subnet", "route_table", "association",
      "security_group", "getcwd", "read", "key_pair", "instance",
      "export_ip", "export_ssh">>

ProgramReadEarly ==
    <<"vpc", "igw", "zones", "subnet", "route_table", "association",
      "getcwd", "read", "security_group", "key_pair", "instance",
      "export_ip", "export_ssh">>

Program ==
    <<"vpc", "igw", "zones", "subnet", "route_table", "association",
      "security_group", "getcwd", "read", "key_pair", "instance",
      "export_ip", "export_ssh">>

LibrarySteps ==
    {"vpc", "igw", "zones", "subnet", "route_table", "association",
     "security_group", "key_pair", "instance", "export_ip", "export_ssh"}

At(step) == status = "running" /\ pc <= Len(Program) /\ Program[pc] = step

\* the statement returned: go on with the next one, the last one ends the run
Advance ==
    /\ pc' = pc + 1
    /\ status' = IF pc >= Len(Program) THEN "done" ELSE "running"
    /\ error' = error

RaiseSwallowed(e) ==
    /\ pc' = pc + 1
    /\ status' = IF pc >= Len(Program) THEN "done" ELSE "running"
    /\ error' = e
    /\ UNCHANGED <<resources, log, outputs, current_dir, az, key_text,
                   read_path>>

\* an exception nothing catches ends the program at the statement raising it
Raise(e) ==
    /\ status' = "error"
    /\ error' = e
    /\ UNCHANGED <<pc, resources, log, outputs, current_dir, az, key_text,
                   read_path>>

\* a resource constructor registers the resource under its logical name
Declare(r) ==
    /\ resources' = (r.name :> r) @@ resources
    /\ log' = Append(log, r.name)

Export(name, value) == outputs' = (name :> value) @@ outputs

\* ---- actions ----

Init ==
    /\ cwd \in Dirs
    /\ files \in {NoFiles} \cup
                 {[p \in {PathJoin(cwd, KeyFileName)} |-> c] : c \in Contents}
    /\ zones \in AZLists
    /\ public_ip \in IPs
    /\ pc = 1
    /\ status = "running"
    /\ error = "none"
    /\ resources = NoResources
    /\ log = <<>>
    /\ outputs = NoOutputs
    /\ current_dir = <<>>
    /\ az = ""
    /\ key_text = <<>>
    /\ read_path = <<>>
    /\ run = 1
    /\ stack = [resources |-> NoResources, outputs |-> NoOutputs]

DeclareVpc ==
    /\ At("vpc")
    /\ Declare(vpc)
    /\ Advance
    /\ UNCHANGED <<env, outputs, current_dir, az, key_text, read_path, run,
                   stack>>

DeclareIgw ==
    /\ At("igw")
    /\ Declare(igw)
    /\ Advance
    /\ UNCHANGED <<env, outputs, current_dir, az, key_text, read_path, run,
                   stack>>

GetZone ==
    /\ At("zones")
    /\ Len(zones) > 0
    /\ az' = FirstAZ(zones)
    /\ Advance
    /\ UNCHANGED <<env, resources, log, outputs, current_dir, key_text,
                   read_path, run, stack>>

GetZoneIndexError ==
    /\ At("zones")
    /\ Len(zones) = 0
    /\ Raise("IndexError")
    /\ UNCHANGED <<env, run, stack>>

DeclareSubnet ==
    /\ At("subnet")
    /\ Declare(public_subnet(az))
    /\ Advance
    /\ UNCHANGED <<env, outputs, current_dir, az, key_text, read_path, run,
                   stack>>

DeclareRouteTable ==
    /\ At("route_table")
    /\ Declare(route_table)
    /\ Advance
    /\ UNCHANGED <<env, outputs, current_dir, az, key_text, read_path, run,
                   stack>>

DeclareAssociation ==
    /\ At("association")
    /\ Declare(route_table_association)
    /\ Advance
    /\ UNCHANGED <<env, outputs, current_dir, az, key_text, read_path, run,
                   stack>>

DeclareSecurityGroup ==
    /\ At("security_group")
    /\ Declare(ssh_security_group)
    /\ Advance
    /\ UNCHANGED <<env, outputs, current_dir, az, key_text, read_path, run,
                   stack>>

GetCwd ==
    /\ At("getcwd")
    /\ current_dir' = cwd
    /\ Advance
    /\ UNCHANGED <<env, resources, log, outputs, az, key_text, read_path,
                   run, stack>>

ReadKey ==
    /\ At("read")
    /\ LET path == PathJoin(current_dir, KeyFileName) IN
         /\ path \in DOMAIN files
         /\ read_path' = path
         /\ key_text' = TextRead(files[path])
    /\ Advance
    /\ UNCHANGED <<env, resources, log, outputs, current_dir, az, run,
                   stack>>

ReadKeyNotFound ==
    /\ At("read")
    /\ PathJoin(current_dir, KeyFileName) \notin DOMAIN files
    /\ Raise("FileNotFoundError")
    /\ UNCHANGED <<env, run, stack>>

DeclareKeyPair ==
    /\ At("key_pair")
    /\ Declare(key_pair(key_text))
    /\ Advance
    /\ UNCHANGED <<env, outputs, current_dir, az, key_text, read_path, run,
                   stack>>

DeclareInstance ==
    /\ At("instance")
    /\ Declare(instance)
    /\ Advance
    /\ UNCHANGED <<env, outputs, current_dir, az, key_text, read_path, run,
                   stack>>

ExportIp ==
    /\ At("export_ip")
    /\ Export("instance_public_ip", public_ip)
    /\ Advance
    /\ UNCHANGED <<env, resources, log, current_dir, az, key_text, read_path,
                   run, stack>>

ExportSsh ==
    /\ At("export_ssh")
    /\ Export("ssh_command", Concat(ssh_command(current_dir, public_ip)))
    /\ Advance
    /\ UNCHANGED <<env, resources, log, current_dir, az, key_text, read_path,
                   run, stack>>

\* a call into the provider library raises (bad credentials, rejected value)
LibraryFailure ==
    /\ status = "running"
    /\ pc <= Len(Program)
    /\ Program[pc] \in LibrarySteps
    /\ Raise("ProviderError")
    /\ UNCHANGED <<env, run, stack>>

\* the program is executed again in the same environment
Rerun ==
    /\ status = "done"
    /\ run < MaxRuns
    /\ run' = run + 1
    /\ stack' = [resources |-> resources, outputs |-> outputs]
    /\ pc' = 1
    /\ status' = "running"
    /\ error' = "none"
    /\ resources' = NoResources
    /\ log' = <<>>
    /\ outputs' = NoOutputs
    /\ current_dir' = <<>>
    /\ az' = ""
    /\ key_text' = <<>>
    /\ read_path' = <<>>
    /\ UNCHANGED env

Step ==
    \/ DeclareVpc
    \/ DeclareIgw
    \/ GetZone
    \/ GetZoneIndexError
    \/ DeclareSubnet
    \/ DeclareRouteTable
    \/ DeclareAssociation
    \/ DeclareSecurityGroup
    \/ GetCwd
    \/ ReadKey
    \/ ReadKeyNotFound
    \/ DeclareKeyPair
    \/ DeclareInstance
    \/ ExportIp
    \/ ExportSsh
    \/ LibraryFailure

Next == Step \/ Rerun

Spec == Init /\ [][Next]_vars

\* the interpreter always executes the next statement of a running program
FairSpec == Spec /\ WF_vars(Step)

\* ---- properties ----

Done == status = "done"

Declared(n) == n \in DOMAIN resources

\* position of a logical name in the order of declaration, 0 when absent
Position(n) ==
    IF \E i \in 1..Len(log) : log[i] = n
    THEN CHOOSE i \in 1..Len(log) : log[i] = n
    ELSE 0

SixNames ==
    {"my-vpc", "my-igw", "public-subnet", "public-route-table",
     "public-route-table-association", "ssh-security-group"}

EightNames == SixNames \cup {"my-key-pair", "my-instance"}

\* C1: in every completed declaration the security group has exactly one
\* ingress rule, tcp 22..22 from 0.0.0.0/0, and exactly one egress rule,
\* protocol -1 on ports 0..0 to 0.0.0.0/0.
C1_SecurityGroupRules ==
    Done =>
        /\ Declared("ssh-security-group")
        /\ LET sg == resources["ssh-security-group"]
               anywhere == [a |-> 0, b |-> 0, c |-> 0, d |-> 0, len |-> 0]
           IN  /\ sg.type = "SecurityGroup"
               /\ Len(sg.ingress) = 1
               /\ sg.ingress[1].protocol = "tcp"
               /\ sg.ingress[1].from_port = 22
               /\ sg.ingress[1].to_port = 22
               /\ sg.ingress[1].cidr_blocks = <<anywhere>>
               /\ Len(sg.egress) = 1
               /\ sg.egress[1].protocol = "-1"
               /\ sg.egress[1].from_port = 0
               /\ sg.egress[1].to_port = 0
               /\ sg.egress[1].cidr_blocks = <<anywhere>>

C1_Witness ==
    /\ Done
    /\ Declared("ssh-security-group")
    /\ Len(resources["ssh-security-group"].ingress) = 1

\* C2: in every completed declaration the route table has exactly one route,
\* to 0.0.0.0/0, through the id of the internet gateway "my-igw" that this
\* program declared.
C2_SingleDefaultRoute ==
    Done =>
        /\ Declared("public-route-table")
        /\ Declared("my-igw")
        /\ resources["my-igw"].type = "InternetGateway"
        /\ LET rt == resources["public-route-table"] IN
               /\ rt.type = "RouteTable"
               /\ Len(rt.routes) = 1
               /\ rt.routes[1].cidr_block =
                      [a |-> 0, b |-> 0, c |-> 0, d |-> 0, len |-> 0]
               /\ rt.routes[1].gateway_id = [res |-> "my-igw", attr |-> "id"]

C2_Witness ==
    /\ Done
    /\ Declared("public-route-table")
    /\ Len(resources["public-route-table"].routes) = 1

\* the text a file content stands for once every line ending is a line feed:
\* a line feed that follows a carriage return is dropped, every remaining
\* carriage return becomes a line feed, everything else is kept in place
NormalisedNewlines(c) ==
    LET kept == {i \in 1..Len(c) : ~(c[i] = "LF" /\ i > 1 /\ c[i - 1] = "CR")}
        nth(j) == CHOOSE i \in kept : Cardinality({k \in kept : k <= i}) = j
    IN  [j \in 1..Cardinality(kept) |->
            IF c[nth(j)] = "CR" THEN "LF" ELSE c[nth(j)]]

\* C3 as stated: the public_key of the key pair equals the content of the
\* key file, unchanged.
C3_PublicKeyIsFileContent ==
    Declared("my-key-pair") =>
        resources["my-key-pair"].public_key = files[read_path]

\* C3, amended: the public_key of the key pair is the content of the key file
\* with every CR LF pair and every lone CR replaced by LF, and nothing else
\* changed (nothing is trimmed); it is the content itself when the file holds
\* no carriage return.
C3_PublicKeyIsTextOfFile ==
    Declared("my-key-pair") =>
        /\ read_path \in DOMAIN files
        /\ resources["my-key-pair"].public_key =
               NormalisedNewlines(files[read_path])
        /\ (\A i \in 1..Len(files[read_path]) : files[read_path][i] # "CR")
               => resources["my-key-pair"].public_key = files[read_path]

C3_Witness ==
    /\ Done
    /\ Declared("my-key-pair")
    /\ files[read_path] = <<"k", "CR", "LF">>
    /\ resources["my-key-pair"].public_key = <<"k", "LF">>

\* C4: the output ssh_command is "ssh -i " + D + "/id_rsa_pulumi ubuntu@" + P
\* where D is the working directory, the one the key was read from, and P is
\* the value exported as instance_public_ip.
C4_SshCommand ==
    Done =>
        /\ DOMAIN outputs = {"instance_public_ip", "ssh_command"}
        /\ outputs["ssh_command"] =
               <<"ssh -i ">> \o cwd \o <<"/id_rsa_pulumi ubuntu@">>
                   \o outputs["instance_public_ip"]
        /\ outputs["instance_public_ip"] = public_ip
        /\ \E sep \in {<<>>, <<"/">>} :
               read_path = cwd \o sep \o <<"id_rsa_pulumi.pub">>

C4_Witness ==
    /\ Done
    /\ cwd = <<"/", "home", "/", "infra">>
    /\ "ssh_command" \in DOMAIN outputs
    /\ Len(outputs["ssh_command"]) = 7

\* C5: a failure ends the run in the error state with the exception that was
\* raised; the failing statement declares nothing, and after the failure no
\* statement is executed, neither the failing one again nor a later one.
C5_FailureAborts ==
    /\ [](status = "error" <=> error # "none")
    /\ [][status = "error" => UNCHANGED vars]_vars
    /\ [][error' # error /\ status = "running" =>
            /\ status' = "error"
            /\ pc' = pc
            /\ resources' = resources
            /\ log' = log
            /\ outputs' = outputs]_vars

C5_Witness ==
    /\ status = "error"
    /\ error = "ProviderError"
    /\ Program[pc] = "subnet"
    /\ DOMAIN resources = {"my-vpc", "my-igw"}

\* C6: executing the program again in an unchanged environment declares the
\* same resources with the same attributes and references and the same
\* outputs as the run before, so nothing is to be created, updated or
\* deleted.
C6_RerunDeclaresTheSame ==
    Done /\ run > 1 =>
        LET created == DOMAIN resources \ DOMAIN stack.resources
            deleted == DOMAIN stack.resources \ DOMAIN resources
            updated == {n \in DOMAIN resources \cap DOMAIN stack.resources :
                           resources[n] # stack.resources[n]}
        IN  /\ created = {}
            /\ deleted = {}
            /\ updated = {}
            /\ outputs = stack.outputs

C6_Witness ==
    /\ Done
    /\ run = 2
    /\ Len(zones) = 2
    /\ DOMAIN stack.resources = EightNames

\* C7: every run ends; a run that ends without a failure has declared exactly
\* the eight resources, one of each type, each once and under its own name,
\* and exactly the two outputs; the statements are executed in one pass, each
\* at most once, and none declares more than one resource.
C7_SinglePassTerminates ==
    /\ (status = "running") ~> (status \in {"done", "error"})
    /\ [](Done =>
            /\ Len(log) = 8
            /\ DOMAIN resources = EightNames
            /\ {resources[n].type : n \in DOMAIN resources} =
                   {"Vpc", "InternetGateway", "Subnet", "RouteTable",
                    "RouteTableAssociation", "SecurityGroup", "KeyPair",
                    "Instance"}
            /\ DOMAIN outputs = {"instance_public_ip", "ssh_command"})
    /\ [](\A i, j \in 1..Len(log) : log[i] = log[j] => i = j)
    /\ [][run' = run =>
            /\ pc' = pc + 1 \/ (pc' = pc /\ status' = "error")
            /\ Len(log') <= Len(log) + 1]_vars

C7_Witness ==
    /\ Done
    /\ Len(log) = 8
    /\ Cardinality(DOMAIN outputs) = 2

\* C8: in every prefix of the declaration, every reference a resource holds
\* names a resource declared strictly earlier, in the order the program gives:
\* VPC before gateway, subnet, route table and security group; gateway before
\* route table; subnet and route table before the association; subnet,
\* security group and key pair before the instance; instance before outputs.
C8_ReferencesPointBack ==
    LET refs(r) ==
            CASE r.type = "Vpc" -> {}
              [] r.type = "InternetGateway" -> {r.vpc_id}
              [] r.type = "Subnet" -> {r.vpc_id}
              [] r.type = "RouteTable" ->
                     {r.vpc_id} \cup
                     {r.routes[k].gateway_id : k \in 1..Len(r.routes)}
              [] r.type = "RouteTableAssociation" ->
                     {r.subnet_id, r.route_table_id}
              [] r.type = "SecurityGroup" -> {r.vpc_id}
              [] r.type = "KeyPair" -> {}
              [] r.type = "Instance" ->
                     {r.subnet_id, r.key_name} \cup
                     {r.vpc_security_group_ids[k] :
                          k \in 1..Len(r.vpc_security_group_ids)}
        before(a, b) == Declared(b) => 0 < Position(a) /\ Position(a) < Position(b)
    IN  /\ \A i \in 1..Len(log) :
               \A ref \in refs(resources[log[i]]) :
                   \E j \in 1..(i - 1) : log[j] = ref.res
        /\ before("my-vpc", "my-igw")
        /\ before("my-vpc", "public-subnet")
        /\ before("my-vpc", "public-route-table")
        /\ before("my-vpc", "ssh-security-group")
        /\ before("my-igw", "public-route-table")
        /\ before("public-subnet", "public-route-table-association")
        /\ before("public-route-table", "public-route-table-association")
        /\ before("public-subnet", "my-instance")
        /\ before("ssh-security-group", "my-instance")
        /\ before("my-key-pair", "my-instance")
        /\ DOMAIN outputs # {} => Declared("my-instance")

C8_Witness ==
    /\ status = "running"
    /\ Len(log) = 5
    /\ log[5] = "public-route-table-association"

\* C9: the key file is read when exactly the VPC, the gateway, the subnet,
\* the route table, the association and the security group are declared, and
\* the key pair is declared only after it; a run that fails reading the file
\* has declared exactly those six resources and no output.
C9_ReadAfterSixBeforeKeyPair ==
    /\ At("read") => DOMAIN resources = SixNames /\ DOMAIN outputs = {}
    /\ Declared("my-key-pair") =>
           read_path # <<>> /\ SixNames \subseteq DOMAIN resources
    /\ error = "FileNotFoundError" =>
           /\ status = "error"
           /\ Program[pc] = "read"
           /\ DOMAIN resources = SixNames
           /\ DOMAIN outputs = {}

C9_Witness ==
    /\ error = "FileNotFoundError"
    /\ files = NoFiles
    /\ Len(log) = 6

\* C10: in every completed declaration the gateway, the subnet, the route
\* table and the security group reference the declared VPC; the subnet's
\* block 10.0.1.0/24 lies inside the VPC's block 10.0.0.0/16; the one
\* association joins the declared subnet and route table; the instance is in
\* that subnet, has the SSH group as its only security group and the key
\* name of the declared key pair; so the instance's subnet has a default
\* route through the gateway of its own VPC.
C10_TopologyConsistent ==
    Done =>
        LET id(n) == [res |-> n, attr |-> "id"]
            number(c) == ((c.a * 256 + c.b) * 256 + c.c) * 256 + c.d
            inside(c, o) ==
                /\ c.len >= o.len
                /\ o.len = 0 \/
                   number(c) \div (2 ^ (32 - o.len)) =
                       number(o) \div (2 ^ (32 - o.len))
            sub == resources["public-subnet"]
            rt == resources["public-route-table"]
            inst == resources["my-instance"]
            assocs == {n \in DOMAIN resources :
                          resources[n].type = "RouteTableAssociation"}
        IN  /\ Cardinality({n \in DOMAIN resources :
                               resources[n].type = "Vpc"}) = 1
            /\ resources["my-vpc"].type = "Vpc"
            /\ \A n \in {"my-igw", "public-subnet", "public-route-table",
                         "ssh-security-group"} :
                   resources[n].vpc_id = id("my-vpc")
            /\ sub.cidr_block = [a |-> 10, b |-> 0, c |-> 1, d |-> 0, len |-> 24]
            /\ resources["my-vpc"].cidr_block =
                   [a |-> 10, b |-> 0, c |-> 0, d |-> 0, len |-> 16]
            /\ inside(sub.cidr_block, resources["my-vpc"].cidr_block)
            /\ assocs = {"public-route-table-association"}
            /\ \A n \in assocs :
                   /\ resources[n].subnet_id = id("public-subnet")
                   /\ resources[n].route_table_id = id("public-route-table")
            /\ inst.subnet_id = id("public-subnet")
            /\ inst.vpc_security_group_ids = <<id("ssh-security-group")>>
            /\ inst.key_name = [res |-> "my-key-pair", attr |-> "key_name"]
            /\ resources["my-key-pair"].key_name = "my-key-pair"
            /\ \E k \in 1..Len(rt.routes) :
                   /\ rt.routes[k].cidr_block.len = 0
                   /\ rt.routes[k].gateway_id = id("my-igw")
                   /\ resources["my-igw"].vpc_id = sub.vpc_id

C10_Witness ==
    /\ Done
    /\ Declared("my-instance")
    /\ resources["my-instance"].subnet_id.res = "public-subnet"

====
